---- MODULE Spec2Model ----
(***************************************************************************)
(* Model of the training engine of the neural-network playground: the      *)
(* network compiler, the forward/backward engine, the parameter updater,   *)
(* the training worker (start/pause/resume/step/stop/reset and the         *)
(* self-rescheduling training loop) and the host-side TrainingManager.     *)
(*                                                                         *)
(* Numbers are integers: the inputs are chosen so that every value the     *)
(* code computes (linear/relu activations, MSE on one output unit, SGD     *)
(* with an integer learning rate) is an integer below 2^24, which a        *)
(* Float32Array holds exactly.  Arrays are 1-based sequences; the code's   *)
(* 0-based index i is position i+1.                                        *)
(***************************************************************************)
EXTENDS Integers, Sequences, FiniteSets, TLC

\* ------------------------------------------------------------------------
\* Bounds of the model
\* ------------------------------------------------------------------------
MaxStep == 10
MaxInbox == 1
MaxOutbox == 1
MaxPending == 2

\* ------------------------------------------------------------------------
\* Generic helpers
\* ------------------------------------------------------------------------
Null == <<>>
Some(x) == <<x>>

RECURSIVE SumSeq(_)
SumSeq(s) == IF s = <<>> THEN 0 ELSE Head(s) + SumSeq(Tail(s))

Zeros(n) == [i \in 1..n |-> 0]

Min(a, b) == IF a < b THEN a ELSE b

\* Math.ceil(a / b) for a >= 0, b >= 1
CeilDiv(a, b) == (a + b - 1) \div b

RECURSIVE Concat(_)
Concat(ss) == IF ss = <<>> THEN <<>> ELSE Head(ss) \o Concat(Tail(ss))

SelectSeqBy(s, id) == SelectSeq(s, LAMBDA n : n.layerId = id)

\* Array.prototype.sort with a numeric comparator is stable: equal keys keep
\* their original order.  f names the key: "x" for layers, "y" for nodes.
Key(r, f) == IF f = "x" THEN r.x ELSE r.y

RECURSIVE SortedInsert(_, _, _)
SortedInsert(s, e, f) ==
  IF s = <<>> THEN <<e>>
  ELSE IF Key(Head(s), f) <= Key(e, f)
       THEN <<Head(s)>> \o SortedInsert(Tail(s), e, f)
       ELSE <<e>> \o s

RECURSIVE StableSort(_, _)
StableSort(s, f) ==
  IF s = <<>> THEN <<>>
  ELSE SortedInsert(StableSort(SubSeq(s, 1, Len(s) - 1), f), s[Len(s)], f)

\* ------------------------------------------------------------------------
\* Activation registry (integer-valued members)
\* ------------------------------------------------------------------------
ActForward(a, x) == IF a = "relu" THEN (IF x > 0 THEN x ELSE 0) ELSE x
ActBackward(a, x) == IF a = "relu" THEN (IF x > 0 THEN 1 ELSE 0) ELSE 1

\* ------------------------------------------------------------------------
\* Network compiler
\* ------------------------------------------------------------------------
\* A network graph: layers (id, type, activation, x), nodes in insertion
\* order (id, layerId, bias, y), edges (from, to, weight).

RECURSIVE BuildLayers(_, _, _, _)
\* acc = [layers, weightOffset, biasOffset, totalParams] after i-1 layers
BuildLayers(network, sorted, i, acc) ==
  IF i > Len(sorted) THEN acc
  ELSE
    LET layer == sorted[i]
        layerNodes == SelectSeqBy(network.nodes, layer.id)
        outputSize == Len(layerNodes)
        inputSize == IF i = 1 THEN outputSize ELSE acc.layers[i - 1].outputSize
        compLayer == [id |-> layer.id, type |-> layer.type,
                      activation |-> layer.activation,
                      inputSize |-> inputSize, outputSize |-> outputSize,
                      weightOffset |-> acc.weightOffset,
                      biasOffset |-> acc.biasOffset]
        isInput == layer.type = "input"
    IN BuildLayers(network, sorted, i + 1,
         [layers |-> Append(acc.layers, compLayer),
          weightOffset |-> IF isInput THEN acc.weightOffset
                           ELSE acc.weightOffset + inputSize * outputSize,
          biasOffset |-> acc.biasOffset + outputSize,
          totalParams |-> acc.totalParams + outputSize
                          + (IF isInput THEN 0 ELSE inputSize * outputSize)])

EdgeWeight(network, from, to) ==
  LET hits == SelectSeq(network.edges, LAMBDA e : e.from = from /\ e.to = to)
  IN IF hits = <<>> THEN 0 ELSE hits[1].weight

SortedNodes(network, layerId) == StableSort(SelectSeqBy(network.nodes, layerId), "y")

\* the bias values in the order initializeFromNetworkState writes them
InitBiases(network, sorted) ==
  Concat([i \in 1..Len(sorted) |->
            LET ns == SortedNodes(network, sorted[i].id)
            IN [n \in 1..Len(ns) |-> ns[n].bias]])

\* the weight values in the order initializeFromNetworkState writes them:
\* previous-layer node j outer, current-layer node k inner
InitWeights(network, sorted) ==
  Concat([i \in 1..(IF Len(sorted) = 0 THEN 0 ELSE Len(sorted) - 1) |->
            LET prevNodes == SortedNodes(network, sorted[i].id)
                currentNodes == SortedNodes(network, sorted[i + 1].id)
                np == Len(prevNodes)
                nc == Len(currentNodes)
            IN [m \in 1..(np * nc) |->
                  EdgeWeight(network, prevNodes[((m - 1) \div nc) + 1].id,
                                      currentNodes[((m - 1) % nc) + 1].id)]])

\* writing the values v[1], v[2], ... into a zeroed typed array of length n:
\* writes past the end are dropped, unwritten entries stay 0
FillBuffer(n, v) == [i \in 1..n |-> IF i <= Len(v) THEN v[i] ELSE 0]

\* the buffers compileNetwork allocates and fills, given the sorted layers
\* and the compiled layers with the final offsets
Buffers(network, sorted, built) ==
  [layers |-> built.layers,
   totalParams |-> built.totalParams,
   activations |-> [i \in 1..Len(built.layers) |-> Zeros(built.layers[i].outputSize)],
   gradients |-> [i \in 1..Len(built.layers) |-> Zeros(built.layers[i].outputSize)],
   weights |-> FillBuffer(built.weightOffset, InitWeights(network, sorted)),
   biases |-> FillBuffer(built.biasOffset, InitBiases(network, sorted)),
   weightGradients |-> Zeros(built.weightOffset),
   biasGradients |-> Zeros(built.biasOffset),
   optimizerState |-> <<>>]

Compiled(network, sorted) ==
  Buffers(network, sorted,
          BuildLayers(network, sorted, 1,
            [layers |-> <<>>, weightOffset |-> 0, biasOffset |-> 0, totalParams |-> 0]))

compileNetwork(network) == Compiled(network, StableSort(network.layers, "x"))

\* ------------------------------------------------------------------------
\* Forward / backward engine
\* ------------------------------------------------------------------------
\* bias + sum_k weights[weightOffset + j*inputSize + k] * prev[k], j 0-based
PreActivation(net, layer, prev, j) ==
  net.biases[layer.biasOffset + j + 1]
  + SumSeq([k \in 1..layer.inputSize |->
              net.weights[layer.weightOffset + j * layer.inputSize + k] * prev[k]])

RECURSIVE ForwardLayers(_, _, _)
ForwardLayers(net, acts, i) ==
  IF i > Len(net.layers) THEN acts
  ELSE LET layer == net.layers[i]
           cur == [j \in 1..layer.outputSize |->
                     ActForward(layer.activation, PreActivation(net, layer, acts[i - 1], j - 1))]
       IN ForwardLayers(net, [acts EXCEPT ![i] = cur], i + 1)

ForwardResult(net, acts) ==
  [threw |-> FALSE, net |-> [net EXCEPT !.activations = acts], output |-> acts[Len(acts)]]

\* activations[0].set(input): a shorter input overwrites a prefix of the buffer
SetInput(old, input) ==
  [k \in 1..Len(old) |-> IF k <= Len(input) THEN input[k] ELSE old[k]]

\* forward: threw = TRUE models the exception of activations[0].set(input)
\* (no first buffer: TypeError; input longer than the buffer: RangeError)
forward(net, input) ==
  IF Len(net.activations) = 0 \/ Len(input) > Len(net.activations[1])
  THEN [threw |-> TRUE, net |-> net, output |-> <<>>]
  ELSE ForwardResult(net,
         ForwardLayers(net, [net.activations EXCEPT
                               ![1] = SetInput(net.activations[1], input)], 2))

\* mse.backward on the output gradient buffer: 2/len * (p - t)
MseBackward(predictions, targets) ==
  [i \in 1..Len(predictions) |-> (2 \div Len(predictions)) * (predictions[i] - targets[i])]

\* the buffers after the weight, bias and previous-layer gradient loops of
\* layer i (1-based), given its pre-activation gradients pag
LayerGradients(net, i, layer, prevActivations, pag) ==
  [net EXCEPT
     !.weightGradients =
        [w \in 1..Len(net.weightGradients) |->
           IF w > layer.weightOffset
              /\ w <= layer.weightOffset + layer.inputSize * layer.outputSize
           THEN net.weightGradients[w]
                + pag[((w - layer.weightOffset - 1) \div layer.inputSize) + 1]
                  * prevActivations[((w - layer.weightOffset - 1) % layer.inputSize) + 1]
           ELSE net.weightGradients[w]],
     !.biasGradients =
        [b \in 1..Len(net.biasGradients) |->
           IF b > layer.biasOffset /\ b <= layer.biasOffset + layer.outputSize
           THEN net.biasGradients[b] + pag[b - layer.biasOffset]
           ELSE net.biasGradients[b]],
     !.gradients[i - 1] =
        IF i > 2
        THEN [k \in 1..layer.inputSize |->
                net.gradients[i - 1][k]
                + SumSeq([j \in 1..layer.outputSize |->
                            pag[j] * net.weights[layer.weightOffset
                                                 + (j - 1) * layer.inputSize + k]])]
        ELSE net.gradients[i - 1]]

PreActivationGrads(net, i, layer) ==
  [j \in 1..layer.outputSize |->
     net.gradients[i][j]
     * ActBackward(layer.activation,
                   PreActivation(net, layer, net.activations[i - 1], j - 1))]

RECURSIVE BackwardLayers(_, _)
\* layers i (1-based, >= 2) down to 2
BackwardLayers(net, i) ==
  IF i < 2 THEN net
  ELSE BackwardLayers(
         LayerGradients(net, i, net.layers[i], net.activations[i - 1],
                        PreActivationGrads(net, i, net.layers[i])),
         i - 1)

\* backward: clears every gradient buffer, seeds the output layer's gradient
\* from the loss and walks the layers down to the first hidden layer
ClearGradients(net) ==
  [net EXCEPT
     !.weightGradients = Zeros(Len(net.weightGradients)),
     !.biasGradients = Zeros(Len(net.biasGradients)),
     !.gradients = [i \in 1..Len(net.layers) |-> Zeros(Len(net.gradients[i]))]]

backward(net, predictions, targets) ==
  BackwardLayers(
    [ClearGradients(net) EXCEPT !.gradients[Len(net.layers)] = MseBackward(predictions, targets)],
    Len(net.layers))

\* ------------------------------------------------------------------------
\* Parameter updater (sgd rule)
\* ------------------------------------------------------------------------
\* weight gradients after the weight-decay loop (skipped when weightDecay is 0
\* or absent)
DecayedGradients(net, weightDecay) ==
  IF weightDecay # 0
  THEN [i \in 1..Len(net.weights) |-> net.weightGradients[i] + weightDecay * net.weights[i]]
  ELSE net.weightGradients

\* sgd.update over the combined parameter and gradient vectors
SgdUpdate(allParams, allGradients, learningRate) ==
  [i \in 1..Len(allParams) |-> allParams[i] - learningRate * allGradients[i]]

CopyBack(net, wg, updated) ==
  [net EXCEPT !.weightGradients = wg,
              !.weights = SubSeq(updated, 1, Len(net.weights)),
              !.biases = SubSeq(updated, Len(net.weights) + 1, Len(updated))]

ApplyOptimizer(net, wg, learningRate) ==
  CopyBack(net, wg, SgdUpdate(net.weights \o net.biases, wg \o net.biasGradients, learningRate))

updateParameters(net, learningRate, step, weightDecay) ==
  ApplyOptimizer(net, DecayedGradients(net, weightDecay), learningRate)

\* ------------------------------------------------------------------------
\* Data utilities
\* ------------------------------------------------------------------------
\* Math.floor(length * 0.8); for the lengths used here (below 10) the
\* floating-point product floors to the same integer as (8 * length) div 10
TrainSizeOf(length) == (8 * length) \div 10

Orders(n) == {p \in [1..n -> 1..n] : \A i, j \in 1..n : i # j => p[i] # p[j]}

\* splitData(features, labels, 0.8, true) without a seed: the Fisher-Yates
\* shuffle driven by Math.random can leave the indices in any order p
splitData(dataset, p) ==
  LET n == Len(dataset.features)
      trainSize == TrainSizeOf(n)
  IN [train |-> [features |-> [i \in 1..trainSize |-> dataset.features[p[i]]],
                 labels |-> [i \in 1..trainSize |-> dataset.labels[p[i]]]],
      val |-> [features |-> [i \in 1..(n - trainSize) |-> dataset.features[p[trainSize + i]]],
               labels |-> [i \in 1..(n - trainSize) |-> dataset.labels[p[trainSize + i]]]]]

\* ------------------------------------------------------------------------
\* Training worker: notifications and state
\* ------------------------------------------------------------------------
batchesPerFrame == 5
updateEvery == 10

Msg(t, e, m) == [type |-> t, epoch |-> e, metrics |-> m]
UpdateMsg(m) == Msg("UPDATE", Null, Some(m))
EpochCompleteMsg(e, m) == Msg("EPOCH_COMPLETE", Some(e), Some(m))
TrainingCompleteMsg(m) == Msg("TRAINING_COMPLETE", Null, Some(m))
ErrorMsg == Msg("ERROR", Null, Null)
PausedMsg == Msg("PAUSED", Null, Null)
StoppedMsg == Msg("STOPPED", Null, Null)

\* result of a worker handler: the new worker state, the notifications it
\* posted in order, the number of requestAnimationFrame(trainingLoop) calls
\* it made, and the batches it executed (history, for the properties)
Result(ws, posted, raf, batches) ==
  [ws |-> ws, posted |-> posted, raf |-> raf, batches |-> batches]

AddSeq(a, b) == [i \in 1..Len(a) |-> a[i] + b[i]]

RECURSIVE SampleLoop(_, _, _, _, _)

\* sample i after its backward call left the buffers b
AfterBackward(feats, labels, i, acc, b) ==
  SampleLoop(b, feats, labels, i + 1,
             [w |-> AddSeq(acc.w, b.weightGradients),
              b |-> AddSeq(acc.b, b.biasGradients)])

\* sample i after its forward call returned f
AfterForward(net, feats, labels, i, acc, f) ==
  IF f.threw THEN [threw |-> TRUE, net |-> net, acc |-> acc]
  ELSE AfterBackward(feats, labels, i, acc, backward(f.net, f.output, <<labels[i]>>))

\* the per-sample loop of trainSingleBatch; acc sums the gradient buffers
\* each backward call leaves (history, for the properties)
SampleLoop(net, feats, labels, i, acc) ==
  IF i > Len(feats) THEN [threw |-> FALSE, net |-> net, acc |-> acc]
  ELSE AfterForward(net, feats, labels, i, acc, forward(net, feats[i]))

RECURSIVE predict(_, _, _)

Predicted(net, inputs, i, f) ==
  IF f.threw THEN [threw |-> TRUE, net |-> net]
  ELSE predict(f.net, inputs, i + 1)

predict(net, inputs, i) ==
  IF i > Len(inputs) THEN [threw |-> FALSE, net |-> net]
  ELSE Predicted(net, inputs, i, forward(net, inputs[i]))

\* calculateValidationMetrics: a forward pass over the validation partition
\* (the loss and accuracy numbers are not modelled)
calculateValidationMetrics(net, val) ==
  IF Len(val.features) = 0 THEN [threw |-> FALSE, net |-> net]
  ELSE predict(net, val.features, 1)

\* the window of trainSingleBatch: 0-based [batchStart, batchEnd).  With an
\* empty partition batchStart is NaN and slice(NaN, NaN) is empty.
BatchStart(step, batchSize, totalSamples) ==
  IF totalSamples = 0 THEN 0 ELSE (step * batchSize) % totalSamples
BatchEnd(step, batchSize, totalSamples) ==
  IF totalSamples = 0 THEN 0
  ELSE Min(BatchStart(step, batchSize, totalSamples) + batchSize, totalSamples)

Uninitialized(ws) ==
  ws.compiledNetwork = Null \/ ws.trainConfig = Null \/ ws.trainData = Null

NoBatch == <<>>

\* history record of a batch: the counters it ran at, the 0-based indices of
\* its window, the step number handed to the optimizer, the gradient buffers
\* the update read and the sums of the per-sample gradients
BatchRecord(ws, batchStart, batchEnd, loop) ==
  [step |-> ws.currentStep, epoch |-> ws.currentEpoch,
   indices |-> [i \in 1..(batchEnd - batchStart) |-> batchStart + i - 1],
   optStep |-> ws.currentStep + 1,
   usedW |-> loop.net.weightGradients, usedB |-> loop.net.biasGradients,
   sumW |-> loop.acc.w, sumB |-> loop.acc.b]

\* the batch after currentStep++, updateParameters and the validation pass valr
BatchOutcome(ws, rec, valr) ==
  [threw |-> valr.threw,
   ws |-> [ws EXCEPT !.compiledNetwork = Some(valr.net), !.currentStep = @ + 1],
   metrics |-> IF valr.threw THEN Null
               ELSE Some([step |-> ws.currentStep + 1, epoch |-> ws.currentEpoch]),
   batch |-> <<rec>>]

\* the batch after its per-sample loop returned loop
AfterSamples(ws, cfg, batchStart, batchEnd, loop) ==
  IF loop.threw
  THEN [threw |-> TRUE, ws |-> [ws EXCEPT !.compiledNetwork = Some(loop.net)],
        metrics |-> Null, batch |-> NoBatch]
  ELSE BatchOutcome(ws, BatchRecord(ws, batchStart, batchEnd, loop),
         calculateValidationMetrics(
           updateParameters(loop.net, cfg.learningRate, ws.currentStep + 1, cfg.weightDecay),
           ws.valData[1]))

\* the batch over the window [batchStart, batchEnd) of the training partition
BatchOver(ws, net, cfg, train, batchStart, batchEnd) ==
  AfterSamples(ws, cfg, batchStart, batchEnd,
    SampleLoop(net,
               SubSeq(train.features, batchStart + 1, batchEnd),
               SubSeq(train.labels, batchStart + 1, batchEnd),
               1,
               [w |-> Zeros(Len(net.weightGradients)), b |-> Zeros(Len(net.biasGradients))]))

trainSingleBatch(ws) ==
  IF Uninitialized(ws) \/ ws.valData = Null
  THEN [threw |-> TRUE, ws |-> ws, metrics |-> Null, batch |-> NoBatch]
  ELSE BatchOver(ws, ws.compiledNetwork[1], ws.trainConfig[1], ws.trainData[1],
         BatchStart(ws.currentStep, ws.trainConfig[1].batchSize,
                    Len(ws.trainData[1].features)),
         BatchEnd(ws.currentStep, ws.trainConfig[1].batchSize,
                  Len(ws.trainData[1].features)))

sendUpdate(ws, metrics) ==
  IF ws.compiledNetwork = Null THEN <<>> ELSE <<UpdateMsg(metrics)>>

\* the worker state startTraining leaves, given the compiled network and the
\* partitions splitData returned
Started(net, config, split) ==
  [isTraining |-> TRUE, shouldPause |-> FALSE,
   currentStep |-> 0, currentEpoch |-> 0,
   compiledNetwork |-> Some(net),
   trainConfig |-> Some(config),
   trainData |-> Some(split.train), valData |-> Some(split.val)]

\* variant: a START keeps the compiled structure of an earlier run
startTraining_reuse(ws, network, config, dataset, p) ==
  Result(Started(IF ws.compiledNetwork = Null THEN compileNetwork(network)
                 ELSE ws.compiledNetwork[1],
                 config, splitData(dataset, p)),
         <<>>, 1, <<>>)

startTraining(ws, network, config, dataset, p) ==
  Result(Started(compileNetwork(network), config, splitData(dataset, p)), <<>>, 1, <<>>)

\* variant: pause reports PAUSED without raising the pause flag
pauseTraining_noflag(ws) ==
  Result(ws, <<PausedMsg>>, 0, <<>>)

pauseTraining(ws) ==
  Result([ws EXCEPT !.shouldPause = TRUE], <<PausedMsg>>, 0, <<>>)

\* variant: resume restarts the counters, as startTraining does
resumeTraining_restart(ws) ==
  IF ~ws.isTraining THEN Result(ws, <<>>, 0, <<>>)
  ELSE Result([ws EXCEPT !.shouldPause = FALSE, !.currentStep = 0, !.currentEpoch = 0],
              <<>>, 1, <<>>)

resumeTraining(ws) ==
  IF ~ws.isTraining THEN Result(ws, <<>>, 0, <<>>)
  ELSE Result([ws EXCEPT !.shouldPause = FALSE], <<>>, 1, <<>>)

\* stepTraining after its trainSingleBatch call returned r
Stepped(r) ==
  IF r.threw THEN Result(r.ws, <<ErrorMsg>>, 0, r.batch)
  ELSE Result(r.ws, sendUpdate(r.ws, r.metrics[1]), 0, r.batch)

\* variant: the step runs its batch but leaves the step counter where it was
stepTraining_samestep(ws) ==
  IF Uninitialized(ws) THEN Result(ws, <<>>, 0, <<>>)
  ELSE Stepped([trainSingleBatch(ws) EXCEPT !.ws.currentStep = ws.currentStep])

stepTraining(ws) ==
  IF Uninitialized(ws) THEN Result(ws, <<>>, 0, <<>>)
  ELSE Stepped(trainSingleBatch(ws))

\* variant: reset clears the flags and counters but keeps the run's objects
resetTraining_keep(ws) ==
  Result([ws EXCEPT !.isTraining = FALSE, !.shouldPause = FALSE,
                    !.currentStep = 0, !.currentEpoch = 0],
         <<StoppedMsg>>, 0, <<>>)

resetTraining(ws) ==
  Result([isTraining |-> FALSE, shouldPause |-> FALSE,
          currentStep |-> 0, currentEpoch |-> 0,
          compiledNetwork |-> Null, trainConfig |-> Null,
          trainData |-> Null, valData |-> Null],
         <<StoppedMsg>>, 0, <<>>)

\* variant: stop only raises the pause flag
stopTraining_aspause(ws) ==
  Result([ws EXCEPT !.shouldPause = TRUE], <<StoppedMsg>>, 0, <<>>)

stopTraining(ws) ==
  Result([ws EXCEPT !.isTraining = FALSE], <<StoppedMsg>>, 0, <<>>)

\* currentEpoch >= trainConfig.epochs, with a late variant: > instead of >=
BudgetReached_late(epoch, cfg) == epoch > cfg.epochs
BudgetReached(epoch, cfg) == epoch >= cfg.epochs

\* one iteration of the for loop of trainingLoop after its trainSingleBatch
\* call returned r: the epoch check and the completion check.  st.outcome is
\* "running" while the loop goes on, "returned" after the return at
\* completion, "threw" after an exception.  totalBatches = 0 makes
\* currentStep % totalBatches NaN, which is not === 0.
LoopBody(st, r, cfg, totalBatches) ==
  IF r.threw
  THEN [st EXCEPT !.ws = r.ws, !.outcome = "threw", !.batches = @ \o r.batch]
  ELSE IF ~(totalBatches # 0 /\ r.ws.currentStep % totalBatches = 0)
  THEN [st EXCEPT !.ws = r.ws, !.metrics = r.metrics, !.batches = @ \o r.batch]
  ELSE IF BudgetReached(r.ws.currentEpoch + 1, cfg)
  THEN [st EXCEPT !.ws = [r.ws EXCEPT !.currentEpoch = @ + 1, !.isTraining = FALSE],
                  !.metrics = r.metrics,
                  !.batches = @ \o r.batch,
                  !.posted = @ \o <<EpochCompleteMsg(r.ws.currentEpoch + 1, r.metrics[1]),
                                    TrainingCompleteMsg(r.metrics[1])>>,
                  !.outcome = "returned"]
  ELSE [st EXCEPT !.ws = [r.ws EXCEPT !.currentEpoch = @ + 1],
                  !.metrics = r.metrics,
                  !.batches = @ \o r.batch,
                  !.posted = @ \o <<EpochCompleteMsg(r.ws.currentEpoch + 1, r.metrics[1])>>]

RECURSIVE LoopIter(_, _)
\* the for loop of trainingLoop from iteration i on
LoopIter(st, i) ==
  IF ~(i < batchesPerFrame /\ st.outcome = "running"
       /\ st.ws.isTraining /\ ~st.ws.shouldPause)
  THEN st
  ELSE LoopIter(LoopBody(st, trainSingleBatch(st.ws), st.ws.trainConfig[1],
                         CeilDiv(Len(st.ws.trainData[1].features),
                                 st.ws.trainConfig[1].batchSize)),
                i + 1)

\* variant: the callback never requests the next callback
AfterLoop_once(st) ==
  IF st.outcome = "threw" THEN Result(st.ws, st.posted \o <<ErrorMsg>>, 0, st.batches)
  ELSE IF st.outcome = "returned" THEN Result(st.ws, st.posted, 0, st.batches)
  ELSE Result(st.ws,
              st.posted \o (IF st.metrics # Null /\ st.ws.currentStep % updateEvery = 0
                            THEN sendUpdate(st.ws, st.metrics[1]) ELSE <<>>),
              0,
              st.batches)

\* variant: the UPDATE is sent after every callback that ran a batch
AfterLoop_unthrottled(st) ==
  IF st.outcome = "threw" THEN Result(st.ws, st.posted \o <<ErrorMsg>>, 0, st.batches)
  ELSE IF st.outcome = "returned" THEN Result(st.ws, st.posted, 0, st.batches)
  ELSE Result(st.ws,
              st.posted \o (IF st.metrics # Null
                            THEN sendUpdate(st.ws, st.metrics[1]) ELSE <<>>),
              IF st.ws.isTraining /\ ~st.ws.shouldPause THEN 1 ELSE 0,
              st.batches)

\* trainingLoop after its for loop ended in st: the periodic UPDATE and the
\* request for the next callback
AfterLoop(st) ==
  IF st.outcome = "threw" THEN Result(st.ws, st.posted \o <<ErrorMsg>>, 0, st.batches)
  ELSE IF st.outcome = "returned" THEN Result(st.ws, st.posted, 0, st.batches)
  ELSE Result(st.ws,
              st.posted \o (IF st.metrics # Null /\ st.ws.currentStep % updateEvery = 0
                            THEN sendUpdate(st.ws, st.metrics[1]) ELSE <<>>),
              IF st.ws.isTraining /\ ~st.ws.shouldPause THEN 1 ELSE 0,
              st.batches)

trainingLoop(ws) ==
  IF ~ws.isTraining \/ ws.shouldPause \/ Uninitialized(ws)
  THEN Result(ws, <<>>, 0, <<>>)
  ELSE AfterLoop(LoopIter([ws |-> ws, posted |-> <<>>, batches |-> <<>>,
                           metrics |-> Null, outcome |-> "running"], 0))

\* self.onmessage: the switch over the command type
onmessage(ws, cmd, network, config, dataset, p) ==
  CASE cmd = "START" -> startTraining(ws, network, config, dataset, p)
    [] cmd = "PAUSE" -> pauseTraining(ws)
    [] cmd = "RESUME" -> resumeTraining(ws)
    [] cmd = "STEP" -> stepTraining(ws)
    [] cmd = "RESET" -> resetTraining(ws)
    [] cmd = "STOP" -> stopTraining(ws)

\* ------------------------------------------------------------------------
\* Host side: TrainingManager.handleWorkerMessage
\* ------------------------------------------------------------------------
\* the new status; the metrics, error text and parameter maps the manager
\* also stores are not modelled
handleWorkerMessage(st, message) ==
  CASE message.type = "UPDATE" -> "training"
    [] message.type = "EPOCH_COMPLETE" -> st
    [] message.type = "TRAINING_COMPLETE" -> "complete"
    [] message.type = "PAUSED" -> "paused"
    [] message.type = "STOPPED" -> "idle"
    [] message.type = "ERROR" -> "error"

\* ------------------------------------------------------------------------
\* Inputs of a START command
\* ------------------------------------------------------------------------
\* 1 -> 1 network, linear output unit, bias 1, weight 1
Net11 ==
  [layers |-> << [id |-> "in", type |-> "input", activation |-> "linear", x |-> 0],
                 [id |-> "out", type |-> "output", activation |-> "linear", x |-> 200] >>,
   nodes |-> << [id |-> "i0", layerId |-> "in", bias |-> 0, y |-> 0],
                [id |-> "o0", layerId |-> "out", bias |-> 1, y |-> 0] >>,
   edges |-> << [from |-> "i0", to |-> "o0", weight |-> 1] >>]

\* a graph with no layers
Net0 == [layers |-> <<>>, nodes |-> <<>>, edges |-> <<>>]


\* one sample: the training partition is empty, the validation one is not
Data1 == [features |-> << <<1>> >>, labels |-> <<1>>]
\* four equal samples: training partition of 3, validation partition of 1
Data4 == [features |-> << <<1>>, <<1>>, <<1>>, <<1>> >>, labels |-> <<3, 3, 3, 3>>]

Config(b, e) ==
  [task |-> "regression", loss |-> "mse", optimizer |-> "sgd", learningRate |-> 1,
   weightDecay |-> 0, batchSize |-> b, epochs |-> e]

StartInput(n, c, d) == [network |-> n, config |-> c, dataset |-> d]

\* the START payloads the host sends
StartInputs ==
  { StartInput(Net11, Config(1, 2), Data4),   \* 3 batches per epoch, 6 in all
    StartInput(Net11, Config(2, 1), Data4),   \* 2 batches per epoch, 2 in all
    StartInput(Net0, Config(1, 1), Data4),    \* forward throws on the first sample
    StartInput(Net11, Config(1, 1), Data1),   \* empty training partition
    StartInput(Net0, Config(1, 1), Data1) }   \* empty batch, validation throws

\* ------------------------------------------------------------------------
\* State
\* ------------------------------------------------------------------------
VARIABLES
  isTraining, shouldPause, currentStep, currentEpoch,   \* worker state
  compiledNetwork, trainConfig, trainData, valData,
  pendingLoops,   \* trainingLoop callbacks requested and not yet run
  inbox,          \* commands posted by the host, not yet handled
  outbox,         \* notifications posted by the worker, not yet delivered
  worker,         \* TrainingManager.worker is non-null
  status,         \* TrainingManager.state.status
  last,           \* history: the last step taken and what it did
  run,            \* history: marks kept across steps of a run
  probe           \* the last direct call of a library function and its result

workerVars == <<isTraining, shouldPause, currentStep, currentEpoch,
                compiledNetwork, trainConfig, trainData, valData>>
vars == <<isTraining, shouldPause, currentStep, currentEpoch,
          compiledNetwork, trainConfig, trainData, valData,
          pendingLoops, inbox, outbox, worker, status, last, run, probe>>

WS == [isTraining |-> isTraining, shouldPause |-> shouldPause,
       currentStep |-> currentStep, currentEpoch |-> currentEpoch,
       compiledNetwork |-> compiledNetwork, trainConfig |-> trainConfig,
       trainData |-> trainData, valData |-> valData]

SetWS(ws) ==
  /\ isTraining' = ws.isTraining
  /\ shouldPause' = ws.shouldPause
  /\ currentStep' = ws.currentStep
  /\ currentEpoch' = ws.currentEpoch
  /\ compiledNetwork' = ws.compiledNetwork
  /\ trainConfig' = ws.trainConfig
  /\ trainData' = ws.trainData
  /\ valData' = ws.valData

Counters(ws) == [step |-> ws.currentStep, epoch |-> ws.currentEpoch]

Last(e, batches, posted, resumed) ==
  [event |-> e, batches |-> batches, posted |-> posted, resumed |-> resumed,
   before |-> Null, raf |-> 0]

CountType(msgs, t) == Len(SelectSeq(msgs, LAMBDA m : m.type = t))

\* no library function has been called directly
NoCall == [op |-> "none"]

Init ==
  /\ isTraining = FALSE
  /\ shouldPause = FALSE
  /\ currentStep = 0
  /\ currentEpoch = 0
  /\ compiledNetwork = Null
  /\ trainConfig = Null
  /\ trainData = Null
  /\ valData = Null
  /\ pendingLoops = 0
  /\ inbox = <<>>
  /\ outbox = <<>>
  /\ worker \in BOOLEAN
  /\ status = IF worker THEN "idle" ELSE "error"
  /\ last = Last("init", <<>>, <<>>, Null)
  /\ run = [pauseMark |-> Null, resumeMark |-> Null, stopped |-> FALSE,
            wasReset |-> FALSE, completions |-> 0, net0 |-> Null,
            paused |-> FALSE, quiet |-> 0]
  /\ probe = NoCall

\* ------------------------------------------------------------------------
\* Host commands (TrainingManager public API)
\* ------------------------------------------------------------------------
Post(cmd) ==
  /\ worker
  /\ Len(inbox) < MaxInbox
  /\ inbox' = Append(inbox, cmd)
  /\ UNCHANGED <<workerVars, pendingLoops, outbox, worker, run, probe>>

HostStart ==
  /\ Post("START")
  /\ status' = "training"
  /\ last' = Last("HOST_START", <<>>, <<>>, Null)

HostStartUnavailable ==
  /\ ~worker
  /\ status' = "error"
  /\ last' = Last("HOST_START", <<>>, <<>>, Null)
  /\ UNCHANGED <<workerVars, pendingLoops, inbox, outbox, worker, run, probe>>

HostPause == Post("PAUSE") /\ UNCHANGED <<status, last>>
HostResume == Post("RESUME") /\ UNCHANGED <<status, last>>
HostStep == Post("STEP") /\ UNCHANGED <<status, last>>
HostStop == Post("STOP") /\ UNCHANGED <<status, last>>
HostReset == Post("RESET") /\ UNCHANGED <<status, last>>

\* ------------------------------------------------------------------------
\* Worker: one command handled, or one trainingLoop callback run
\* ------------------------------------------------------------------------
\* history: the pause point a first batch after RESUME is compared with
ResumedBy(r) ==
  IF run.resumeMark # Null /\ r.batches # <<>>
  THEN Some([mark |-> run.resumeMark[1],
             first |-> [step |-> r.batches[1].step, epoch |-> r.batches[1].epoch]])
  ELSE Null

\* history: the marks of the run after the step named event returned r
Marks(event, r) ==
  CASE event = "START" ->
         [pauseMark |-> Null, resumeMark |-> Null, stopped |-> FALSE,
          wasReset |-> FALSE, completions |-> 0, net0 |-> r.ws.compiledNetwork,
          paused |-> FALSE, quiet |-> 0]
    [] event = "PAUSE" ->
         [run EXCEPT !.pauseMark = Some(Counters(WS)), !.resumeMark = Null,
                     !.paused = TRUE]
    [] event = "RESUME" ->
         [run EXCEPT !.resumeMark = run.pauseMark, !.pauseMark = Null,
                     !.paused = FALSE, !.quiet = 0]
    [] event = "STEP" ->
         [run EXCEPT !.pauseMark = Null,
                     !.resumeMark = IF r.batches # <<>> THEN Null ELSE @,
                     !.quiet = IF CountType(r.posted, "UPDATE") > 0 THEN 0 ELSE @]
    [] event = "RESET" ->
         [run EXCEPT !.pauseMark = Null, !.resumeMark = Null, !.wasReset = TRUE]
    [] event = "STOP" ->
         [run EXCEPT !.pauseMark = Null, !.stopped = TRUE]
    [] event = "TICK" ->
         [run EXCEPT !.resumeMark = IF r.batches # <<>> THEN Null ELSE @,
                     !.completions = @ + CountType(r.posted, "TRAINING_COMPLETE"),
                     !.quiet = IF CountType(r.posted, "UPDATE") > 0 THEN 0
                               ELSE @ + Len(r.batches)]

\* the worker step named event returned r: its state, its notifications and
\* its requestAnimationFrame calls take effect; a TICK consumes one callback
Effect(event, r) ==
  /\ SetWS(r.ws)
  /\ pendingLoops' = pendingLoops + r.raf - (IF event = "TICK" THEN 1 ELSE 0)
  /\ outbox' = outbox \o r.posted
  /\ last' = [Last(event, r.batches, r.posted, ResumedBy(r))
                EXCEPT !.before = IF event \in {"STOP", "START"}
                                  THEN Some(compiledNetwork) ELSE Null,
                       !.raf = r.raf]
  /\ run' = Marks(event, r)
  /\ UNCHANGED <<worker, status, probe>>

Receive(cmd) ==
  /\ inbox # <<>>
  /\ Head(inbox) = cmd
  /\ Len(outbox) <= MaxOutbox
  /\ inbox' = Tail(inbox)

OnStart ==
  /\ Receive("START")
  /\ pendingLoops < MaxPending
  /\ \E in \in StartInputs :
       \E p \in Orders(Len(in.dataset.features)) :
         Effect("START", onmessage(WS, "START", in.network, in.config, in.dataset, p))

OnPause ==
  /\ Receive("PAUSE")
  /\ Effect("PAUSE", onmessage(WS, "PAUSE", Net0, Null, Data1, <<>>))

OnResume ==
  /\ Receive("RESUME")
  /\ pendingLoops < MaxPending
  /\ Effect("RESUME", onmessage(WS, "RESUME", Net0, Null, Data1, <<>>))

OnStep ==
  /\ Receive("STEP")
  /\ currentStep < MaxStep
  /\ Effect("STEP", onmessage(WS, "STEP", Net0, Null, Data1, <<>>))

OnReset ==
  /\ Receive("RESET")
  /\ Effect("RESET", onmessage(WS, "RESET", Net0, Null, Data1, <<>>))

OnStop ==
  /\ Receive("STOP")
  /\ Effect("STOP", onmessage(WS, "STOP", Net0, Null, Data1, <<>>))

LoopTick ==
  /\ pendingLoops > 0
  /\ Len(outbox) <= MaxOutbox
  /\ currentStep < MaxStep
  /\ Effect("TICK", trainingLoop(WS))
  /\ UNCHANGED inbox

\* ------------------------------------------------------------------------
\* Host: one notification delivered
\* ------------------------------------------------------------------------
HostReceive ==
  /\ outbox # <<>>
  /\ status' = handleWorkerMessage(status, Head(outbox))
  /\ outbox' = Tail(outbox)
  /\ last' = Last("DELIVER", <<>>, <<Head(outbox)>>, Null)
  /\ UNCHANGED <<workerVars, pendingLoops, inbox, worker, run, probe>>

Next ==
  \/ HostStart
  \/ HostStartUnavailable
  \/ HostPause
  \/ HostResume
  \/ HostStep
  \/ HostStop
  \/ HostReset
  \/ OnStart
  \/ OnPause
  \/ OnResume
  \/ OnStep
  \/ OnReset
  \/ OnStop
  \/ LoopTick
  \/ HostReceive

Spec == Init /\ [][Next]_vars

\* ------------------------------------------------------------------------
\* Batches of one run: the state once START has been handled, for training
\* partitions of distinct samples in every order the shuffle can produce,
\* then STEP commands and loop callbacks in any interleaving
\* ------------------------------------------------------------------------
Data3d == [features |-> << <<0>>, <<1>>, <<1>> >>, labels |-> <<1, 3, 2>>]
Data4d == [features |-> << <<0>>, <<1>>, <<1>>, <<0>> >>, labels |-> <<1, 3, 2, 2>>]

BatchInputs ==
  { StartInput(Net11, Config(b, e), d) :
      b \in {1, 2}, e \in {2, 4}, d \in {Data3d, Data4d} }

\* the state once the START handler returned r
StartedWith(r) ==
  /\ isTraining = r.ws.isTraining
  /\ shouldPause = r.ws.shouldPause
  /\ currentStep = r.ws.currentStep
  /\ currentEpoch = r.ws.currentEpoch
  /\ compiledNetwork = r.ws.compiledNetwork
  /\ trainConfig = r.ws.trainConfig
  /\ trainData = r.ws.trainData
  /\ valData = r.ws.valData
  /\ pendingLoops = r.raf
  /\ run = [pauseMark |-> Null, resumeMark |-> Null, stopped |-> FALSE,
            wasReset |-> FALSE, completions |-> 0,
            net0 |-> r.ws.compiledNetwork, paused |-> FALSE, quiet |-> 0]

InitBatch ==
  /\ \E in \in BatchInputs :
       \E p \in Orders(Len(in.dataset.features)) :
         StartedWith(startTraining(resetTraining(Null).ws,
                                   in.network, in.config, in.dataset, p))
  /\ inbox = <<>>
  /\ outbox = <<>>
  /\ worker = TRUE
  /\ status = "training"
  /\ last = Last("START", <<>>, <<>>, Null)
  /\ probe = NoCall

NextBatch ==
  \/ HostStep
  \/ OnStep
  \/ LoopTick
  \/ HostReceive

SpecBatch == InitBatch /\ [][NextBatch]_vars

\* ------------------------------------------------------------------------
\* A long run: 8 epochs of 3 batches, with PAUSE, RESUME and STEP commands
\* ------------------------------------------------------------------------
MaxLongStep == 25

LongInput == StartInput(Net11, Config(1, 8), Data4d)

\* the shuffle of splitData left the samples in their order, or reversed it
LongOrders == {<<1, 2, 3, 4>>, <<4, 3, 2, 1>>}

InitLoop ==
  /\ \E p \in LongOrders :
       StartedWith(startTraining(resetTraining(Null).ws, LongInput.network,
                                 LongInput.config, LongInput.dataset, p))
  /\ inbox = <<>>
  /\ outbox = <<>>
  /\ worker = TRUE
  /\ status = "training"
  /\ last = Last("START", <<>>, <<>>, Null)
  /\ probe = NoCall

\* one trainingLoop callback, in a run of up to MaxLongStep batches
LongTick ==
  /\ pendingLoops > 0
  /\ Len(outbox) <= MaxOutbox
  /\ currentStep < MaxLongStep
  /\ Effect("TICK", trainingLoop(WS))
  /\ UNCHANGED inbox

NextLoop ==
  \/ HostPause
  \/ HostResume
  \/ HostStep
  \/ OnPause
  \/ OnResume
  \/ OnStep
  \/ LongTick
  \/ HostReceive

SpecLoop == InitLoop /\ [][NextLoop]_vars

\* ------------------------------------------------------------------------
\* An undisturbed run: a START, then nothing but loop callbacks and the
\* delivery of their notifications
\* ------------------------------------------------------------------------
MaxRunStep == 20

\* three samples of two features each: more than the input layer of Net11 takes
Data3w == [features |-> << <<0, 1>>, <<1, 0>>, <<1, 1>> >>, labels |-> <<1, 3, 2>>]

\* runs of 1 to 12 batches, a run on a graph with no layers and runs whose
\* samples do not fit the input layer
RunInputs ==
  { StartInput(Net11, Config(b, e), d) :
      b \in {1, 2, 3}, e \in {1, 2, 4}, d \in {Data3d, Data4d, Data3w} }
  \cup { StartInput(Net0, Config(1, 1), Data4) }

InitRun ==
  /\ \E in \in RunInputs :
       \E p \in Orders(Len(in.dataset.features)) :
         StartedWith(startTraining(resetTraining(Null).ws,
                                   in.network, in.config, in.dataset, p))
  /\ inbox = <<>>
  /\ outbox = <<>>
  /\ worker = TRUE
  /\ status = "training"
  /\ last = Last("START", <<>>, <<>>, Null)
  /\ probe = NoCall

\* one trainingLoop callback of the run
RunTick ==
  /\ pendingLoops > 0
  /\ currentStep < MaxRunStep
  /\ Effect("TICK", trainingLoop(WS))
  /\ UNCHANGED inbox

NextRun ==
  \/ RunTick
  \/ HostReceive

\* what a callback of the run changes and a delivery leaves alone: a callback
\* runs at least one batch, or its first batch throws and it requests no
\* further callback
progress == <<currentStep, pendingLoops>>

\* a RunTick step as progress sees it: the steps of RunTick are the steps of
\* NextRun that change progress, and RunTick is enabled whenever its two
\* guards hold (see TickIsProgress)
TickProgress ==
  /\ pendingLoops > 0
  /\ currentStep < MaxRunStep
  /\ currentStep' \in currentStep..(currentStep + batchesPerFrame)
  /\ pendingLoops' \in {pendingLoops - 1, pendingLoops}

\* requestAnimationFrame runs every callback it was given: a pending
\* trainingLoop callback is not postponed for ever.  The condition is
\* WF_vars(RunTick), stated over progress.
SpecRun == InitRun /\ [][NextRun]_vars /\ WF_progress(TickProgress)

\* the steps that change progress are the callbacks, and each callback is a
\* TickProgress step
TickIsProgress ==
  [][/\ (progress' # progress) <=> (last'.event = "TICK" /\ last' # last)
     /\ (progress' # progress) => TickProgress]_vars

TypeOK ==
  /\ isTraining \in BOOLEAN
  /\ shouldPause \in BOOLEAN
  /\ currentStep \in 0..(MaxStep + MaxLongStep + MaxRunStep + batchesPerFrame)
  /\ pendingLoops \in 0..MaxPending
  /\ status \in {"idle", "training", "paused", "error", "complete"}

\* ------------------------------------------------------------------------
\* Properties
\* ------------------------------------------------------------------------
Initialized == compiledNetwork # Null /\ trainConfig # Null /\ trainData # Null

TrainSize == Len(trainData[1].features)
BatchesPerEpoch == CeilDiv(TrainSize, trainConfig[1].batchSize)

Delivered(t) == last.event = "DELIVER" /\ last.posted[1].type = t

\* C1: pause/resume continuity.  From a PAUSE until the RESUME that follows it
\* (no START, STEP, STOP or RESET between) the counters stay at their values
\* (s, e) of the pause point, and the first batch executed after that RESUME
\* is the batch for counter s with epoch e; the batches of that step follow
\* one another without a gap or a repeat.
PauseResumeContinuity ==
  /\ run.pauseMark # Null => Counters(WS) = run.pauseMark[1]
  /\ last.resumed # Null =>
       /\ last.resumed[1].first = last.resumed[1].mark
       /\ \A i \in 1..Len(last.batches) :
            /\ last.batches[i].step = last.resumed[1].mark.step + i - 1
            /\ last.batches[i].optStep = last.resumed[1].mark.step + i

\* a loop callback ran the first batches after a RESUME that followed a
\* mid-run PAUSE
ResumedMidRun ==
  /\ last.event = "TICK"
  /\ last.resumed # Null
  /\ last.resumed[1].mark.step > 0
  /\ last.resumed[1].mark.epoch > 0

Blank ==
  /\ ~isTraining /\ ~shouldPause
  /\ currentStep = 0 /\ currentEpoch = 0
  /\ compiledNetwork = Null /\ trainConfig = Null
  /\ trainData = Null /\ valData = Null

\* C3: after RESET the run state is blank; a loop callback that runs after a
\* RESET (and before a new START) executes no batch; delivering STOPPED makes
\* the host status idle.
ResetBlank ==
  /\ last.event = "RESET" => Blank
  /\ (run.wasReset /\ last.event = "TICK") =>
       (last.batches = <<>> /\ currentStep = 0 /\ compiledNetwork = Null)
  /\ Delivered("STOPPED") => status = "idle"

\* a callback scheduled before the RESET ran after it
TickAfterReset == run.wasReset /\ last.event = "TICK" /\ run.net0 # Null

\* C4 (as claimed): after STOP is handled both counters are zero.
StopDiscardsCounters ==
  last.event = "STOP" => (currentStep = 0 /\ currentEpoch = 0)

\* C5: STOP leaves the compiled structure, weights and biases included, as it
\* was, and from a STOP until the next START no loop callback executes a
\* batch, whatever commands (RESUME included) are handled in between.
StopKeepsParameters ==
  /\ last.event = "STOP" => last.before = Some(compiledNetwork)
  /\ (run.stopped /\ last.event = "TICK") => last.batches = <<>>

\* a loop callback ran after STOP on a trained structure, with the loop
\* flags as RESUME leaves them
TickAfterStop ==
  /\ run.stopped /\ last.event = "TICK"
  /\ compiledNetwork # Null /\ currentStep > 0 /\ ~shouldPause

AllowedTransition(a, b) ==
  \/ a = "idle" /\ b = "training"
  \/ a = "training" /\ b = "paused"
  \/ a = "paused" /\ b = "training"
  \/ a = "training" /\ b = "complete"
  \/ b = "error"
  \/ b = "idle"

\* C6 (as claimed): the host status changes only along idle->training,
\* training->paused, paused->training, training->complete, any->error, any->idle.
StatusTransitions ==
  [][status' # status => AllowedTransition(status, status')]_vars

\* C7 (as claimed): in every state of a run with a non-empty training
\* partition, epoch = floor(step / batchesPerEpoch).
EpochCounting ==
  (Initialized /\ TrainSize >= 1) => currentEpoch = currentStep \div BatchesPerEpoch

EpochBoundaries(batches) ==
  {i \in 1..Len(batches) : (batches[i].step + 1) % BatchesPerEpoch = 0}

\* C8: a loop callback posts one EPOCH_COMPLETE per epoch boundary its batches
\* reach, whatever the step counter is modulo 10; TRAINING_COMPLETE is posted
\* at most once per run, as the last notification of its callback, right after
\* the EPOCH_COMPLETE whose epoch is the configured budget; its delivery makes
\* the host status complete; and after it no loop callback executes a batch
\* until a new START.
Completion ==
  /\ (last.event = "TICK" /\ last.batches # <<>> /\ TrainSize >= 1) =>
       /\ CountType(last.posted, "EPOCH_COMPLETE")
            = Cardinality(EpochBoundaries(last.batches))
       /\ CountType(last.posted, "TRAINING_COMPLETE")
            = (IF currentEpoch >= trainConfig[1].epochs THEN 1 ELSE 0)
       /\ \A i \in 1..Len(last.posted) :
            last.posted[i].type = "TRAINING_COMPLETE" =>
              /\ i = Len(last.posted)
              /\ i > 1
              /\ last.posted[i - 1].type = "EPOCH_COMPLETE"
              /\ last.posted[i - 1].epoch = Some(trainConfig[1].epochs)
  /\ run.completions <= 1
  /\ Delivered("TRAINING_COMPLETE") => status = "complete"
  /\ (last.event = "TICK" /\ run.completions >= 1
        /\ CountType(last.posted, "TRAINING_COMPLETE") = 0) => last.batches = <<>>

\* a callback completed a run of two epochs at a step counter that is not a
\* multiple of 10
CompletedOffThrottle ==
  /\ last.event = "TICK"
  /\ CountType(last.posted, "TRAINING_COMPLETE") = 1
  /\ currentEpoch = 2
  /\ currentStep % updateEvery # 0

WrappingWindow(s, b, n) == [i \in 1..b |-> (s * b + i - 1) % n]

\* C9 (as claimed): every batch has exactly batchSize samples, the indices
\* (s*b + i) mod n for i = 0..b-1.
BatchWraps ==
  (Initialized /\ TrainSize >= 1) =>
    \A i \in 1..Len(last.batches) :
      last.batches[i].indices
        = WrappingWindow(last.batches[i].step, trainConfig[1].batchSize, TrainSize)

\* C10 (as claimed): the gradients the update of a batch uses are the sums of
\* the per-sample gradients of the batch's samples.
GradientsAccumulate ==
  \A i \in 1..Len(last.batches) :
    /\ last.batches[i].usedW = last.batches[i].sumW
    /\ last.batches[i].usedB = last.batches[i].sumB

\* the worker state right after the START of the current run, with an epoch
\* budget the loop cannot reach within the bounds of the model
RunStart ==
  [isTraining |-> TRUE, shouldPause |-> FALSE, currentStep |-> 0, currentEpoch |-> 0,
   compiledNetwork |-> run.net0,
   trainConfig |-> Some([trainConfig[1] EXCEPT !.epochs = MaxStep + batchesPerFrame + 1]),
   trainData |-> trainData, valData |-> valData]

\* one pass of the body of the loop in trainingLoop: a batch, then the epoch check
OneLoopBatch(ws) ==
  LoopIter([ws |-> ws, posted |-> <<>>, batches |-> <<>>, metrics |-> Null,
            outcome |-> "running"], batchesPerFrame - 1)

RECURSIVE LoopRun(_, _)
\* the worker state after one uninterrupted loop has run k batches from ws
LoopRun(ws, k) == IF k = 0 THEN ws ELSE OneLoopBatch(LoopRun(ws, k - 1)).ws

SameParameters(net, ref) == net.weights = ref.weights /\ net.biases = ref.biases

SameBatch(b, rb) ==
  /\ rb # <<>>
  /\ rb[1].indices = b.indices
  /\ rb[1].optStep = b.optStep

\* C2: step/run equivalence.  However the batches of a run were executed (by
\* STEP commands, by loop callbacks, or a mix), the weights and biases after
\* k batches are those one uninterrupted loop has after its first k batches,
\* and each batch had the window and the optimizer step number the loop's
\* batch of the same index has.
StepRunEquivalence ==
  (Initialized /\ run.net0 # Null) =>
    /\ SameParameters(compiledNetwork[1], LoopRun(RunStart, currentStep).compiledNetwork[1])
    /\ \A i \in 1..Len(last.batches) :
         SameBatch(last.batches[i],
                   OneLoopBatch(LoopRun(RunStart, last.batches[i].step)).batches)

\* ten STEP commands ran the first ten batches of a run: no loop callback ran
\* any of them (a callback runs five batches and would have ended an epoch)
TenSteps ==
  /\ last.event = "STEP"
  /\ currentStep = 10
  /\ currentEpoch = 0
  /\ Initialized /\ TrainSize >= 1 /\ BatchesPerEpoch <= batchesPerFrame
  /\ Len(compiledNetwork[1].weights) > 0
  /\ pendingLoops = 1 /\ isTraining /\ ~shouldPause

\* C13: pause is honoured between batches.  From a PAUSE until a RESUME or a
\* START is handled no loop callback executes a batch, a callback that was
\* already pending included; every batch a handler executes runs to its
\* parameter update before the next one starts (one batch at a time, none cut
\* short); and delivering PAUSED makes the host status paused.
PauseHonoured ==
  /\ (run.paused /\ last.event = "TICK") => last.batches = <<>>
  /\ \A i \in 1..Len(last.batches) :
       /\ last.batches[i].optStep = last.batches[i].step + 1
       /\ i > 1 => last.batches[i].step = last.batches[i - 1].step + 1
  /\ Delivered("PAUSED") => status = "paused"

\* a loop callback ran during a run that a PAUSE had suspended mid-way
PausedCallbackRan ==
  /\ run.paused /\ last.event = "TICK"
  /\ isTraining /\ currentStep > 0 /\ compiledNetwork # Null

\* C14 (as claimed): a STEP, PAUSE or RESUME handled while no compiled
\* structure exists posts exactly one ERROR notification and executes no
\* batch, and delivering ERROR makes the host status error.
UninitializedIsError ==
  /\ (last.event \in {"STEP", "PAUSE", "RESUME"} /\ compiledNetwork = Null) =>
       (last.posted = <<ErrorMsg>> /\ last.batches = <<>>)
  /\ Delivered("ERROR") => status = "error"

\* a compiled structure of a graph with no layers or with a layer of no units
InvalidStructure(net) ==
  Len(net.layers) = 0 \/ \E i \in 1..Len(net.layers) : net.layers[i].outputSize = 0

\* C16 (as claimed): a START whose graph has no layers, or a layer with no
\* units, fails at compilation: it posts ERROR, leaves the worker not
\* training and requests no loop callback.
InvalidGraphFailsAtStart ==
  (last.event = "START" /\ compiledNetwork # Null /\ InvalidStructure(compiledNetwork[1])) =>
    (~isTraining /\ last.posted = <<ErrorMsg>> /\ last.raf = 0)

\* C17 (as claimed): once the host status is error it stays error until the
\* host starts a run or a STOPPED notification (the answer to RESET) is
\* delivered, and while it is error no loop callback executes a batch.
ErrorIsSticky ==
  [][/\ (status = "error" /\ status' # "error") =>
          \/ last'.event = "HOST_START"
          \/ (last'.event = "DELIVER" /\ last'.posted[1].type = "STOPPED")
     /\ (status = "error" /\ last'.event = "TICK") => last'.batches = <<>>]_vars

\* every working buffer of a structure is zero and no optimizer state exists
FreshBuffers(net) ==
  /\ net.weightGradients = Zeros(Len(net.weightGradients))
  /\ net.biasGradients = Zeros(Len(net.biasGradients))
  /\ \A i \in 1..Len(net.layers) :
       /\ net.activations[i] = Zeros(net.layers[i].outputSize)
       /\ net.gradients[i] = Zeros(net.layers[i].outputSize)
  /\ net.optimizerState = <<>>

\* C18: every START, whatever the state it is handled in, leaves the counters
\* at zero, the pause flag cleared and a structure that is the compilation of
\* the START's graph alone: weights and biases as the graph gives them, all
\* working buffers zero, no optimizer state; the batches of the new run start
\* from that structure.
FreshRunOnStart ==
  last.event = "START" =>
    /\ isTraining /\ ~shouldPause
    /\ currentStep = 0 /\ currentEpoch = 0
    /\ compiledNetwork # Null
    /\ FreshBuffers(compiledNetwork[1])
    /\ \E in \in StartInputs : compiledNetwork[1] = compileNetwork(in.network)
    /\ run.net0 = compiledNetwork

\* a START was handled over an earlier run of the same graph that had trained
\* its weights
StartOverTrainedRun ==
  /\ last.event = "START"
  /\ last.before[1] # Null /\ compiledNetwork # Null
  /\ last.before[1][1].layers = compiledNetwork[1].layers
  /\ Len(compiledNetwork[1].weights) > 0
  /\ last.before[1][1].weights # compiledNetwork[1].weights

\* ------------------------------------------------------------------------
\* Seeded shuffle of splitData
\* ------------------------------------------------------------------------
\* The generator state is an integer below 2^32, held as two 16-bit limbs
\* (hi * 2^16 + lo) so that no intermediate product leaves the integer range;
\* the code's double arithmetic is exact here, every product being below 2^53.
Limb == 65536

\* createSeededRandom(seed): the closure's state starts at the seed
createSeededRandom(seed) == [hi |-> (seed \div Limb) % Limb, lo |-> seed % Limb]

\* state = (state * 1664525 + 1013904223) % 2^32, with
\* 1664525 = 25 * 2^16 + 26125 and 1013904223 = 15470 * 2^16 + 62303
LcgNext(state) ==
  [hi |-> (state.hi * 26125 + state.lo * 25 + 15470
           + ((state.lo * 26125 + 62303) \div Limb)) % Limb,
   lo |-> (state.lo * 26125 + 62303) % Limb]

\* Math.floor(rng() * n) for the value state / 2^32 the generator returns
RandomIndex(state, n) == (state.hi * n + ((state.lo * n) \div Limb)) \div Limb

\* [indices[i], indices[j]] = [indices[j], indices[i]], positions 1-based
Swap(indices, i, j) ==
  [k \in 1..Len(indices) |->
     IF k = i THEN indices[j] ELSE IF k = j THEN indices[i] ELSE indices[k]]

RECURSIVE ShuffleFrom(_, _, _)

\* iteration i (0-based) of the shuffle loop once the generator moved to state
ShuffleStep(indices, i, state) ==
  ShuffleFrom(Swap(indices, i + 1, RandomIndex(state, i + 1) + 1), i - 1, state)

\* the loop for (i = length - 1; i > 0; i--) from iteration i on
ShuffleFrom(indices, i, state) ==
  IF i < 1 THEN [order |-> indices, rng |-> state]
  ELSE ShuffleStep(indices, i, LcgNext(state))

\* variant: a call goes on drawing from the generator an earlier call left
RngFor_shared(seed, live) ==
  IF live = Null THEN createSeededRandom(seed) ELSE live[1]

\* the generator a call of splitData with a seed draws from: a new one made
\* from the seed, whatever generator (live) an earlier call left behind
RngFor(seed, live) == createSeededRandom(seed)

\* the partitions for the shuffled order sh.order, and the generator left
SeededSplit(dataset, sh) ==
  [parts |-> splitData(dataset, sh.order), rng |-> sh.rng]

\* splitData(features, labels, 0.8, true, seed)
splitDataSeeded(dataset, seed, live) ==
  SeededSplit(dataset,
              ShuffleFrom([i \in 1..Len(dataset.features) |-> i],
                          Len(dataset.features) - 1, RngFor(seed, live)))

\* ------------------------------------------------------------------------
\* The library functions called directly
\* ------------------------------------------------------------------------
MaxInputLen == 3
MaxSeed == 24
MaxSamples == 4
MaxBatchSize == 3
MaxEpochs == 3

\* two inputs, two outputs; no edge from i1 to o1; nodes listed out of order
Net22 ==
  [layers |-> << [id |-> "in", type |-> "input", activation |-> "linear", x |-> 0],
                 [id |-> "out", type |-> "output", activation |-> "linear", x |-> 200] >>,
   nodes |-> << [id |-> "i1", layerId |-> "in", bias |-> 0, y |-> 100],
                [id |-> "i0", layerId |-> "in", bias |-> 0, y |-> 0],
                [id |-> "o0", layerId |-> "out", bias |-> 1, y |-> 0],
                [id |-> "o1", layerId |-> "out", bias |-> 0, y |-> 100] >>,
   edges |-> << [from |-> "i0", to |-> "o0", weight |-> 1],
                [from |-> "i0", to |-> "o1", weight |-> 2],
                [from |-> "i1", to |-> "o0", weight |-> 3] >>]

\* two inputs, three outputs, fully connected
Net23 ==
  [layers |-> << [id |-> "in", type |-> "input", activation |-> "linear", x |-> 0],
                 [id |-> "out", type |-> "output", activation |-> "linear", x |-> 200] >>,
   nodes |-> << [id |-> "i0", layerId |-> "in", bias |-> 0, y |-> 0],
                [id |-> "i1", layerId |-> "in", bias |-> 0, y |-> 100],
                [id |-> "o0", layerId |-> "out", bias |-> 0, y |-> 0],
                [id |-> "o1", layerId |-> "out", bias |-> 0, y |-> 100],
                [id |-> "o2", layerId |-> "out", bias |-> 0, y |-> 200] >>,
   edges |-> << [from |-> "i0", to |-> "o0", weight |-> 1],
                [from |-> "i0", to |-> "o1", weight |-> 2],
                [from |-> "i0", to |-> "o2", weight |-> 3],
                [from |-> "i1", to |-> "o0", weight |-> 4],
                [from |-> "i1", to |-> "o1", weight |-> 5],
                [from |-> "i1", to |-> "o2", weight |-> 6] >>]

\* two inputs, a hidden relu layer of two, one output; layers listed out of order
Net221 ==
  [layers |-> << [id |-> "out", type |-> "output", activation |-> "linear", x |-> 400],
                 [id |-> "in", type |-> "input", activation |-> "linear", x |-> 0],
                 [id |-> "hid", type |-> "hidden", activation |-> "relu", x |-> 200] >>,
   nodes |-> << [id |-> "i0", layerId |-> "in", bias |-> 0, y |-> 0],
                [id |-> "i1", layerId |-> "in", bias |-> 0, y |-> 100],
                [id |-> "h0", layerId |-> "hid", bias |-> 0, y |-> 0],
                [id |-> "h1", layerId |-> "hid", bias |-> 1, y |-> 100],
                [id |-> "o0", layerId |-> "out", bias |-> 0, y |-> 0] >>,
   edges |-> << [from |-> "i0", to |-> "h0", weight |-> 1],
                [from |-> "i0", to |-> "h1", weight |-> 2],
                [from |-> "i1", to |-> "h0", weight |-> 3],
                [from |-> "i1", to |-> "h1", weight |-> 4],
                [from |-> "h0", to |-> "o0", weight |-> 1],
                [from |-> "h1", to |-> "o0", weight |-> 2] >>]

\* two layers of two units; the first one in position order is declared hidden
NetHidden22 ==
  [layers |-> << [id |-> "in", type |-> "hidden", activation |-> "linear", x |-> 0],
                 [id |-> "out", type |-> "output", activation |-> "linear", x |-> 200] >>,
   nodes |-> << [id |-> "i0", layerId |-> "in", bias |-> 0, y |-> 0],
                [id |-> "i1", layerId |-> "in", bias |-> 0, y |-> 100],
                [id |-> "o0", layerId |-> "out", bias |-> 0, y |-> 0],
                [id |-> "o1", layerId |-> "out", bias |-> 0, y |-> 100] >>,
   edges |-> << [from |-> "i0", to |-> "o0", weight |-> 1],
                [from |-> "i0", to |-> "o1", weight |-> 2],
                [from |-> "i1", to |-> "o0", weight |-> 3],
                [from |-> "i1", to |-> "o1", weight |-> 4] >>]

\* layers of two, one and two units; the middle one is declared input
NetInput212 ==
  [layers |-> << [id |-> "in", type |-> "input", activation |-> "linear", x |-> 0],
                 [id |-> "mid", type |-> "input", activation |-> "linear", x |-> 200],
                 [id |-> "out", type |-> "output", activation |-> "linear", x |-> 400] >>,
   nodes |-> << [id |-> "i0", layerId |-> "in", bias |-> 0, y |-> 0],
                [id |-> "i1", layerId |-> "in", bias |-> 0, y |-> 100],
                [id |-> "m0", layerId |-> "mid", bias |-> 0, y |-> 0],
                [id |-> "o0", layerId |-> "out", bias |-> 0, y |-> 0],
                [id |-> "o1", layerId |-> "out", bias |-> 0, y |-> 100] >>,
   edges |-> << [from |-> "i0", to |-> "m0", weight |-> 1],
                [from |-> "i1", to |-> "m0", weight |-> 2],
                [from |-> "m0", to |-> "o0", weight |-> 3],
                [from |-> "m0", to |-> "o1", weight |-> 4] >>]

Graphs == {Net11, Net22, Net23, Net221, NetHidden22, NetInput212}

\* the input vectors of forward: every 0/1 vector of length 0..MaxInputLen
Inputs == UNION {[1..n -> {0, 1}] : n \in 0..MaxInputLen}

Optimizers == {"sgd", "momentum", "adam"}

\* five distinct samples: training partition of 4, validation partition of 1
Data5d ==
  [features |-> << <<0>>, <<1>>, <<1>>, <<0>>, <<1>> >>, labels |-> <<1, 3, 2, 2, 5>>]

SplitInputs == {Data3d, Data4d, Data5d}

\* optimizer.initialize(paramCount): the lengths of the accumulator arrays
\* of the optimizer state (sgd: none, momentum: velocity, adam: m and v)
initialize(optimizer, paramCount) ==
  CASE optimizer = "sgd" -> <<>>
    [] optimizer = "momentum" -> <<paramCount>>
    [] optimizer = "adam" -> <<paramCount, paramCount>>

\* the training indices of batch `step`: batchStart .. batchEnd - 1
BatchWindow(step, batchSize, totalSamples) ==
  {i \in 0..(totalSamples - 1) :
     /\ BatchStart(step, batchSize, totalSamples) <= i
     /\ i < BatchEnd(step, batchSize, totalSamples)}

\* Math.ceil(trainData.features.length / batchSize)
batchesPerEpochOf(totalSamples, batchSize) == CeilDiv(totalSamples, batchSize)

\* a direct call changes the probe and nothing else
machineVars == <<workerVars, pendingLoops, inbox, outbox, worker, status, last, run>>

Compiling(network, net, optimizer) ==
  [op |-> "compileNetwork", network |-> network, net |-> net,
   optimizer |-> optimizer, accumulators |-> initialize(optimizer, net.totalParams)]

\* compileNetwork(network), then the first updateParameters creates the
\* optimizer state with optimizer.initialize(net.totalParams)
CallCompile ==
  \E network \in Graphs, optimizer \in Optimizers :
    /\ probe' = Compiling(network, compileNetwork(network), optimizer)
    /\ UNCHANGED machineVars

Forwarding(network, net, input, r) ==
  [op |-> "forward", network |-> network, width |-> net.layers[1].outputSize,
   input |-> input, threw |-> r.threw, output |-> r.output]

ForwardOn(network, net, input) == Forwarding(network, net, input, forward(net, input))

\* forward(compileNetwork(network), input)
CallForward ==
  \E network \in Graphs, input \in Inputs :
    /\ probe' = ForwardOn(network, compileNetwork(network), input)
    /\ UNCHANGED machineVars

Splitting(dataset, seed, r) ==
  [op |-> "splitData", dataset |-> dataset, seed |-> seed,
   first |-> r.parts, rng |-> r.rng]

\* splitData(features, labels, 0.8, true, seed)
CallSplitData ==
  \E dataset \in SplitInputs, seed \in 0..MaxSeed :
    /\ probe' = Splitting(dataset, seed, splitDataSeeded(dataset, seed, Null))
    /\ UNCHANGED machineVars

SplittingAgain(c, r) ==
  [op |-> "splitDataAgain", dataset |-> c.dataset, seed |-> c.seed,
   first |-> c.first, second |-> r.parts]

\* the same call once more, with the same arguments
CallSplitDataAgain ==
  /\ probe.op = "splitData"
  /\ probe' = SplittingAgain(probe,
                            splitDataSeeded(probe.dataset, probe.seed, Some(probe.rng)))
  /\ UNCHANGED machineVars

\* the windows of the consecutive batches of epoch `epoch` (0-based): steps
\* epoch * batchesPerEpoch .. (epoch + 1) * batchesPerEpoch - 1
EpochOf(totalSamples, batchSize, epoch) ==
  [op |-> "epoch", totalSamples |-> totalSamples, batchSize |-> batchSize,
   epoch |-> epoch,
   windows |-> [i \in 1..batchesPerEpochOf(totalSamples, batchSize) |->
                  BatchWindow(epoch * batchesPerEpochOf(totalSamples, batchSize) + i - 1,
                              batchSize, totalSamples)]]

\* the batch windows trainSingleBatch takes during one epoch
CallEpoch ==
  \E totalSamples \in 1..MaxSamples, batchSize \in 1..MaxBatchSize,
     epoch \in 0..(MaxEpochs - 1) :
    /\ probe' = EpochOf(totalSamples, batchSize, epoch)
    /\ UNCHANGED machineVars

\* ------------------------------------------------------------------------
\* The optimizers over real numbers
\* ------------------------------------------------------------------------
\* The optimizers multiply by 0.9, 0.1, 0.999 and 0.001, so their numbers are
\* kept as exact decimals n / 10^e; what a decimal cannot hold (a quotient, a
\* square root, a power) is kept as the term that defines it.  Rounding to
\* single precision on a store into a Float32Array is not modelled.
Dec(n, e) == [op |-> "dec", n |-> n, e |-> e]

Term(op, args) == [op |-> op, args |-> args]

IsDec(x) == x.op = "dec"

RECURSIVE Pow10(_)
Pow10(e) == IF e = 0 THEN 1 ELSE 10 * Pow10(e - 1)

\* the decimal n / 10^e without trailing zeros
RECURSIVE Reduced(_, _)
Reduced(n, e) ==
  IF e > 0 /\ n % 10 = 0 THEN Reduced(n \div 10, e - 1) ELSE Dec(n, e)

Max(a, b) == IF a >= b THEN a ELSE b

DecPlus(a, b) ==
  Reduced(a.n * Pow10(Max(a.e, b.e) - a.e) + b.n * Pow10(Max(a.e, b.e) - b.e),
          Max(a.e, b.e))

Plus(a, b) == IF IsDec(a) /\ IsDec(b) THEN DecPlus(a, b) ELSE Term("+", <<a, b>>)

Minus(a, b) ==
  IF IsDec(a) /\ IsDec(b) THEN DecPlus(a, Dec(0 - b.n, b.e)) ELSE Term("-", <<a, b>>)

Times(a, b) ==
  IF IsDec(a) /\ IsDec(b) THEN Reduced(a.n * b.n, a.e + b.e) ELSE Term("*", <<a, b>>)

Over(a, b) == Term("/", <<a, b>>)

Sqrt(a) == Term("sqrt", <<a>>)

\* Math.pow(a, k)
Power(a, k) == Term("pow", <<a, k>>)

Real(i) == Dec(i, 0)

Reals(v) == [i \in 1..Len(v) |-> Real(v[i])]

\* a compiled structure with the contents of its parameter and gradient
\* arrays as real numbers
AsReal(net) ==
  [net EXCEPT !.weights = Reals(net.weights), !.biases = Reals(net.biases),
              !.weightGradients = Reals(net.weightGradients),
              !.biasGradients = Reals(net.biasGradients)]

\* the default arguments of momentum.update and adam.update
beta == Dec(9, 1)
beta1 == Dec(9, 1)
beta2 == Dec(999, 3)
epsilon == Dec(1, 8)

\* sgd.update: params[i] -= learningRate * gradients[i]
SgdStep(params, gradients, state, learningRate) ==
  [params |-> [i \in 1..Len(params) |-> Minus(params[i], Times(learningRate, gradients[i]))],
   state |-> state]

\* velocity[i] = beta * velocity[i] + (1 - beta) * gradients[i]
Velocity(velocity, gradients, n) ==
  [i \in 1..Len(velocity) |->
     IF i <= n
     THEN Plus(Times(beta, velocity[i]), Times(Minus(Real(1), beta), gradients[i]))
     ELSE velocity[i]]

MomentumMove(params, velocity, learningRate) ==
  [params |-> [i \in 1..Len(params) |-> Minus(params[i], Times(learningRate, velocity[i]))],
   state |-> <<velocity>>]

\* momentum.update
MomentumStep(params, gradients, state, learningRate) ==
  MomentumMove(params, Velocity(state[1], gradients, Len(params)), learningRate)

\* m[i] = beta1 * m[i] + (1 - beta1) * gradients[i]
FirstMoment(m, gradients, n) ==
  [i \in 1..Len(m) |->
     IF i <= n
     THEN Plus(Times(beta1, m[i]), Times(Minus(Real(1), beta1), gradients[i]))
     ELSE m[i]]

\* v[i] = beta2 * v[i] + (1 - beta2) * gradients[i] * gradients[i]
SecondMoment(v, gradients, n) ==
  [i \in 1..Len(v) |->
     IF i <= n
     THEN Plus(Times(beta2, v[i]),
               Times(Times(Minus(Real(1), beta2), gradients[i]), gradients[i]))
     ELSE v[i]]

\* mHat = m[i] / (1 - beta1^step), vHat = v[i] / (1 - beta2^step),
\* params[i] -= (learningRate * mHat) / (sqrt(vHat) + epsilon)
AdamMove(params, m, v, learningRate, step) ==
  [params |->
     [i \in 1..Len(params) |->
        Minus(params[i],
              Over(Times(learningRate,
                         Over(m[i], Minus(Real(1), Power(beta1, step)))),
                   Plus(Sqrt(Over(v[i], Minus(Real(1), Power(beta2, step)))),
                        epsilon)))],
   state |-> <<m, v>>]

\* adam.update
AdamStep(params, gradients, state, learningRate, step) ==
  AdamMove(params, FirstMoment(state[1], gradients, Len(params)),
           SecondMoment(state[2], gradients, Len(params)), learningRate, step)

\* optimizers[optimizerType].update: the parameters and the state it leaves
OptimizerUpdate(optimizerType, params, gradients, state, learningRate, step) ==
  CASE optimizerType = "sgd" -> SgdStep(params, gradients, state, learningRate)
    [] optimizerType = "momentum" -> MomentumStep(params, gradients, state, learningRate)
    [] optimizerType = "adam" -> AdamStep(params, gradients, state, learningRate, step)

\* optimizer.initialize(paramCount): one zeroed array per accumulator
InitialState(optimizerType, paramCount) ==
  [a \in 1..Len(initialize(optimizerType, paramCount)) |->
     Reals(Zeros(initialize(optimizerType, paramCount)[a]))]

\* Object.keys(net.optimizerState).length === 0
NoKeys(state) == Len(state) = 0

\* variant: the optimizer state is created anew at every call
StateFor_fresh(net, optimizerType) == InitialState(optimizerType, net.totalParams)

\* the optimizer state the update works on: created when the structure has
\* none (an object without keys), the structure's own otherwise
StateFor(net, optimizerType) ==
  IF NoKeys(net.optimizerState) THEN InitialState(optimizerType, net.totalParams)
  ELSE net.optimizerState

\* variant: no weight decay
WithDecay_none(net, weightDecay) == net.weightGradients

\* weightGradients[i] += weightDecay * weights[i], when weightDecay is truthy
WithDecay(net, weightDecay) ==
  IF weightDecay # Real(0)
  THEN [i \in 1..Len(net.weights) |->
          Plus(net.weightGradients[i], Times(weightDecay, net.weights[i]))]
  ELSE net.weightGradients

\* the structure after optimizer.update returned u and the copy back
Updated(net, wg, u) ==
  [net EXCEPT !.weightGradients = wg,
              !.weights = SubSeq(u.params, 1, Len(net.weights)),
              !.biases = SubSeq(u.params, Len(net.weights) + 1, Len(u.params)),
              !.optimizerState = u.state]

UpdateWith(net, optimizerType, learningRate, step, wg, state) ==
  Updated(net, wg,
          OptimizerUpdate(optimizerType, net.weights \o net.biases,
                          wg \o net.biasGradients, state, learningRate, step))

\* updateParameters for any optimizer, on a structure holding real numbers
updateParametersOf(net, optimizerType, learningRate, step, weightDecay) ==
  UpdateWith(net, optimizerType, learningRate, step,
             WithDecay(net, weightDecay), StateFor(net, optimizerType))

MaxCalls == 2

UpdateGraphs == {Net11, Net22}

\* the weightDecay of the configuration: absent (0) or 2
Decays == {Real(0), Real(2)}

GradientValues == {0 - 1, 2}

\* a structure whose gradient arrays hold gw (weights) and gb (biases)
WithGradients(net, gw, gb) ==
  [net EXCEPT !.weightGradients = [i \in 1..Len(net.weights) |-> Real(gw)],
              !.biasGradients = [i \in 1..Len(net.biases) |-> Real(gb)]]

\* call number `call` of updateParameters on the structure `before`;
\* created counts the calls of optimizer.initialize so far
UpdateCall(before, optimizer, weightDecay, call, created) ==
  [op |-> "updateParameters", optimizer |-> optimizer, weightDecay |-> weightDecay,
   call |-> call, before |-> before,
   created |-> created + (IF NoKeys(before.optimizerState) THEN 1 ELSE 0),
   read |-> StateFor(before, optimizer),
   net |-> updateParametersOf(before, optimizer, Real(1), call, weightDecay)]

\* the first updateParameters on a newly compiled structure
CallUpdate ==
  \E network \in UpdateGraphs, optimizer \in Optimizers, weightDecay \in Decays,
     gw \in GradientValues, gb \in GradientValues :
    /\ probe' = UpdateCall(WithGradients(AsReal(compileNetwork(network)), gw, gb),
                           optimizer, weightDecay, 1, 0)
    /\ UNCHANGED machineVars

\* the next updateParameters on the same structure, with new gradients
CallUpdateAgain ==
  /\ probe.op = "updateParameters"
  /\ probe.call < MaxCalls
  /\ \E gw \in GradientValues, gb \in GradientValues :
       probe' = UpdateCall(WithGradients(probe.net, gw, gb), probe.optimizer,
                           probe.weightDecay, probe.call + 1, probe.created)
  /\ UNCHANGED machineVars

\* ------------------------------------------------------------------------
\* Targets of a classification run
\* ------------------------------------------------------------------------
MaxClasses == 3
MaxLabels == 3

RECURSIVE MaxLabel(_)
\* Math.max(...labels) of at least one label
MaxLabel(labels) ==
  IF Len(labels) = 1 THEN labels[1] ELSE Max(labels[1], MaxLabel(Tail(labels)))

\* oneHotEncode(labels) without numClasses: one vector per label, each of
\* length Math.max(...labels) + 1, with a 1 at index label; the map over no
\* labels builds no vector
oneHotEncode(labels) ==
  IF labels = <<>> THEN <<>>
  ELSE [i \in 1..Len(labels) |->
          [j \in 1..(MaxLabel(labels) + 1) |-> IF j - 1 = labels[i] THEN 1 ELSE 0]]

\* the label lists of a partition of a dataset with `classes` classes
LabelLists(classes, minLen, maxLen) ==
  UNION {[1..n -> 0..(classes - 1)] : n \in minLen..maxLen}

\* the targets trainSingleBatch builds for batch `step` of a classification
\* run and the targets calculateValidationMetrics builds; classes is the
\* number of classes of the dataset, which is the width of the output layer
TargetsOf(classes, labels, valLabels, batchSize, step) ==
  [op |-> "targets", classes |-> classes, labels |-> labels,
   valLabels |-> valLabels, batchSize |-> batchSize, step |-> step,
   targets |-> oneHotEncode(SubSeq(labels,
                                   BatchStart(step, batchSize, Len(labels)) + 1,
                                   BatchEnd(step, batchSize, Len(labels)))),
   valTargets |-> oneHotEncode(valLabels)]

\* a batch and the validation pass of a classification run
CallTargets ==
  \E classes \in 2..MaxClasses, batchSize \in 1..MaxBatchSize,
     step \in 0..(MaxLabels - 1) :
    \E labels \in LabelLists(classes, 1, MaxLabels),
       valLabels \in LabelLists(classes, 0, 1) :
      /\ probe' = TargetsOf(classes, labels, valLabels, batchSize, step)
      /\ UNCHANGED machineVars

InitEngine == Init /\ worker

NextEngine ==
  \/ CallCompile
  \/ CallForward
  \/ CallSplitData
  \/ CallSplitDataAgain
  \/ CallEpoch
  \/ CallUpdate
  \/ CallUpdateAgain
  \/ CallTargets

SpecEngine == InitEngine /\ [][NextEngine]_vars

\* ------------------------------------------------------------------------
\* Properties of the library functions (checked under SpecEngine)
\* ------------------------------------------------------------------------
\* the weight the graph gives the edge from node k of the previous layer to
\* node j of layer l (both 0-based, in vertical order), 0 without an edge
GraphWeight(network, net, l, j, k) ==
  EdgeWeight(network, SortedNodes(network, net.layers[l - 1].id)[k + 1].id,
                      SortedNodes(network, net.layers[l].id)[j + 1].id)

\* C11 (as claimed): in a compiled structure, the weight buffer element at
\* weightOffset + j * inputSize + k of every non-input layer, the one forward
\* multiplies activation k of the previous layer with for output j, is the
\* weight of the graph's edge from previous-layer node k to node j, or 0
\* when there is no such edge.
WeightLayout ==
  probe.op = "compileNetwork" =>
    \A l \in 2..Len(probe.net.layers) :
      \A j \in 0..(probe.net.layers[l].outputSize - 1) :
        \A k \in 0..(probe.net.layers[l].inputSize - 1) :
          probe.net.weights[probe.net.layers[l].weightOffset
                            + j * probe.net.layers[l].inputSize + k + 1]
            = GraphWeight(probe.network, probe.net, l, j, k)

\* the parameters of the non-input layers: inputSize * outputSize + outputSize
RECURSIVE NonInputParams(_, _)
NonInputParams(layers, l) ==
  IF l > Len(layers) THEN 0
  ELSE (IF layers[l].type = "input" THEN 0
        ELSE layers[l].inputSize * layers[l].outputSize + layers[l].outputSize)
       + NonInputParams(layers, l + 1)

\* C12 (as claimed): totalParams of a compiled structure is the sum over the
\* non-input layers of inputSize * outputSize + outputSize, and every
\* accumulator array the optimizer creates at the first update has exactly
\* that many elements.
ParameterCount ==
  probe.op = "compileNetwork" =>
    /\ probe.net.totalParams = NonInputParams(probe.net.layers, 1)
    /\ \A a \in 1..Len(probe.accumulators) :
         probe.accumulators[a] = NonInputParams(probe.net.layers, 1)

\* C15 (as claimed): forward fails exactly when the input vector's length
\* differs from the width of the input layer, shorter or longer.
InputLengthChecked ==
  probe.op = "forward" => (probe.threw <=> Len(probe.input) # probe.width)

EpochCoversAll ==
  probe.op = "epoch" =>
    UNION {probe.windows[i] : i \in 1..Len(probe.windows)}
      = 0..(probe.totalSamples - 1)

\* the weight buffer entries (0-based) layer l of a compiled structure owns:
\* none for the first layer, inputSize * outputSize from weightOffset on for
\* a later one
WeightRegion(net, l) ==
  IF l = 1 THEN {}
  ELSE {net.layers[l].weightOffset + m :
          m \in 0..(net.layers[l].inputSize * net.layers[l].outputSize - 1)}

\* C21 (as claimed): whatever kinds the layers declare, the weight buffer of a
\* compiled structure is exactly the regions of the layers after the first:
\* the first later layer starts at entry 0, every region lies inside the
\* buffer, two regions never share an entry, and the offsets of the later
\* layers strictly increase in layer order.
WeightRegions ==
  probe.op = "compileNetwork" =>
    /\ Len(probe.net.layers) >= 2 => probe.net.layers[2].weightOffset = 0
    /\ \A l \in 2..Len(probe.net.layers) :
         /\ WeightRegion(probe.net, l) \subseteq 0..(Len(probe.net.weights) - 1)
         /\ \A m \in (l + 1)..Len(probe.net.layers) :
              /\ WeightRegion(probe.net, l) \cap WeightRegion(probe.net, m) = {}
              /\ probe.net.layers[l].weightOffset < probe.net.layers[m].weightOffset

\* C22 (as claimed): for each optimizer kind the optimizer state of a run is
\* created exactly once, at the first updateParameters call, and every later
\* call works on the state the call before it left.
AccumulatorCreatedOnce ==
  probe.op = "updateParameters" =>
    /\ probe.created = 1
    /\ probe.call > 1 => probe.read = probe.before.optimizerState

\* the gradients the optimizer of the last updateParameters call ran with
UsedGradients == probe.net.weightGradients \o probe.net.biasGradients

\* C22 (amended): momentum and adam create their accumulators once, zeroed
\* and of totalParams elements, at the first updateParameters call; every
\* later call reads the accumulators the call before it left and updates
\* them (the velocity of momentum becomes 0.9 * velocity + 0.1 * gradient).
\* sgd has no accumulator: its state is an object without keys, which every
\* call creates again.
AccumulatorPersists ==
  probe.op = "updateParameters" =>
    /\ probe.optimizer \in {"momentum", "adam"} =>
         /\ probe.created = 1
         /\ probe.call = 1 =>
              probe.read = InitialState(probe.optimizer, probe.before.totalParams)
         /\ probe.call > 1 =>
              /\ ~NoKeys(probe.before.optimizerState)
              /\ probe.read = probe.before.optimizerState
         /\ Len(probe.net.optimizerState) = Len(probe.read)
    /\ probe.optimizer = "momentum" =>
         \A i \in 1..Len(UsedGradients) :
           probe.net.optimizerState[1][i]
             = Plus(Times(beta, probe.read[1][i]), Times(Dec(1, 1), UsedGradients[i]))
    /\ probe.optimizer = "sgd" =>
         /\ NoKeys(probe.read) /\ NoKeys(probe.net.optimizerState)
         /\ probe.created = probe.call

\* C22 witness: a second momentum update that read a velocity the first
\* update left, and changed it
VelocityCarried ==
  /\ probe.op = "updateParameters"
  /\ probe.optimizer = "momentum"
  /\ probe.call = 2
  /\ probe.read # InitialState("momentum", probe.before.totalParams)
  /\ probe.net.optimizerState # probe.read

\* C23: updateParameters with a weightDecay adds weightDecay * weight to the
\* gradient of every weight and nothing to a bias gradient, and the optimizer
\* runs with the gradients so changed (sgd moves every weight by the decayed
\* gradient and every bias by its own gradient); without a weightDecay the
\* gradients the optimizer runs with are the ones it was handed.
WeightDecayOnWeights ==
  probe.op = "updateParameters" =>
    /\ probe.weightDecay # Real(0) =>
         \A i \in 1..Len(probe.before.weights) :
           probe.net.weightGradients[i]
             = Plus(probe.before.weightGradients[i],
                    Times(probe.weightDecay, probe.before.weights[i]))
    /\ probe.weightDecay = Real(0) =>
         probe.net.weightGradients = probe.before.weightGradients
    /\ probe.net.biasGradients = probe.before.biasGradients
    /\ probe.optimizer = "sgd" =>
         /\ \A i \in 1..Len(probe.before.weights) :
              probe.net.weights[i]
                = Minus(probe.before.weights[i], probe.net.weightGradients[i])
         /\ \A i \in 1..Len(probe.before.biases) :
              probe.net.biases[i]
                = Minus(probe.before.biases[i], probe.before.biasGradients[i])

\* C23 witness: a second sgd update whose weight decay changed a weight
\* gradient, with a bias that has a value and a gradient other than 0
DecayApplied ==
  /\ probe.op = "updateParameters"
  /\ probe.optimizer = "sgd"
  /\ probe.call = 2
  /\ probe.weightDecay # Real(0)
  /\ probe.net.weightGradients # probe.before.weightGradients
  /\ \E i \in 1..Len(probe.before.biases) :
       probe.before.biases[i] # Real(0) /\ probe.before.biasGradients[i] # Real(0)

\* the positions of the UPDATE notifications among those of the last step
UpdatesPosted == {i \in 1..Len(last.posted) : last.posted[i].type = "UPDATE"}

\* C24: a loop callback runs at most 5 batches and posts at most one UPDATE,
\* as its last notification, after at least one batch and only when the step
\* counter it leaves is a multiple of 10.
UpdateThrottled ==
  last.event = "TICK" =>
    /\ Len(last.batches) <= batchesPerFrame
    /\ Cardinality(UpdatesPosted) <= 1
    /\ \A i \in UpdatesPosted :
         /\ i = Len(last.posted)
         /\ last.batches # <<>>
         /\ currentStep % updateEvery = 0

\* C24 witness: a callback that ran 5 batches with samples and posted its UPDATE
ThrottledUpdateSent ==
  /\ last.event = "TICK"
  /\ Len(last.batches) = batchesPerFrame
  /\ \A i \in 1..Len(last.batches) : last.batches[i].indices # <<>>
  /\ UpdatesPosted # {}

\* C25 (as claimed): in every reachable state at most one trainingLoop
\* callback is pending.
SingleLoopPending == pendingLoops <= 1

\* C26 (as claimed): whenever no command and no notification is in flight,
\* the host status is training exactly when the worker's loop is active
\* (isTraining set and the pause flag clear).
HostWorkerAgree ==
  (inbox = <<>> /\ outbox = <<>>) =>
    (status = "training" <=> (isTraining /\ ~shouldPause))

\* C27 (as claimed): the loop never executes 20 batches in a row, counted
\* from the last UPDATE or from the last START or RESUME, without posting an
\* UPDATE.
SnapshotEvery20 == run.quiet < 20

\* C28 (as claimed): every EPOCH_COMPLETE a loop callback posts carries
\* metrics whose epoch equals the notification's epoch field, and the
\* metrics of every TRAINING_COMPLETE carry the configured epoch budget.
EpochFieldsAgree ==
  last.event = "TICK" =>
    \A i \in 1..Len(last.posted) :
      /\ last.posted[i].type = "EPOCH_COMPLETE" =>
           last.posted[i].metrics[1].epoch = last.posted[i].epoch[1]
      /\ last.posted[i].type = "TRAINING_COMPLETE" =>
           last.posted[i].metrics[1].epoch = trainConfig[1].epochs

\* C29 (as claimed): in a classification run every target vector of every
\* training batch and of the validation pass has as many entries as the
\* dataset has classes, whichever labels occur in the batch.
TargetLength ==
  probe.op = "targets" =>
    /\ \A i \in 1..Len(probe.targets) : Len(probe.targets[i]) = probe.classes
    /\ \A i \in 1..Len(probe.valTargets) : Len(probe.valTargets[i]) = probe.classes

\* the loop callback that just ran posted the run's only TRAINING_COMPLETE,
\* with the step counter at epochs * ceil(trainSize / batchSize)
CompletedExactly ==
  /\ last.event = "TICK"
  /\ CountType(last.posted, "TRAINING_COMPLETE") = 1
  /\ run.completions = 1
  /\ trainConfig[1].epochs >= 1 /\ trainConfig[1].batchSize >= 1 /\ TrainSize >= 1
  /\ currentStep = trainConfig[1].epochs * BatchesPerEpoch

\* the loop callback that just ran caught an exception of its batch
BatchThrew ==
  /\ last.event = "TICK"
  /\ CountType(last.posted, "ERROR") = 1

====
